---- MODULE Spec2Model ----
\* A model of the UUID generator (generator.go) and the codec (codec.go) of
\* go.uuid.  Bytes are the integers 0..255, an identifier is a sequence of 16
\* bytes (index i+1 of the sequence is byte i of the Go array), a uint64 is a
\* sequence of 8 bytes, most significant first, and a text is a sequence of
\* character codes.
EXTENDS Integers, Sequences, FiniteSets, TLC

\* ------------------------------------------------------------------ bounds

\* Number of generator calls explored in a run of Spec.
MaxCalls == 3

\* Number of goroutines that call the generator concurrently in SpecConc.
NumProcs == 2

\* Number of single-character edits made to a text before it is decoded.
MaxEdits == 1

\* ------------------------------------------------------------- identifier

Size == 16

V1 == 1
V2 == 2
V3 == 3
V4 == 4
V5 == 5
V6 == 6
V7 == 7

VariantNCS == 0
VariantRFC4122 == 1
VariantMicrosoft == 2
VariantFuture == 3

DomainPerson == 0
DomainGroup == 1
DomainOrg == 2

Zeros(n) == [i \in 1..n |-> 0]

Nil == Zeros(Size)

\* copy(dst[off:], src): as many bytes of src as fit into dst from offset off.
Put(dst, off, src) ==
    [i \in 1..Len(dst) |->
        IF i > off /\ i <= off + Len(src) THEN src[i - off] ELSE dst[i]]

\* u.Version(): the high nibble of byte 6.
Version(u) == u[7] \div 16

\* u.Variant(): the leading bits of byte 8, read 111, 110, 10, else NCS.
Variant(u) ==
    IF u[9] \div 128 = 0 THEN VariantNCS
    ELSE IF u[9] \div 64 = 2 THEN VariantRFC4122
    ELSE IF u[9] \div 32 = 6 THEN VariantMicrosoft
    ELSE VariantFuture

\* u.SetVersion(v): clear the high nibble of byte 6, then OR in v << 4.
SetVersion(u, v) == [u EXCEPT ![7] = (u[7] % 16) + ((v * 16) % 256)]

\* u.SetVariant(v): rewrite the leading bits of byte 8.
SetVariant(u, v) ==
    [u EXCEPT ![9] =
        IF v = VariantNCS THEN u[9] % 128
        ELSE IF v = VariantRFC4122 THEN (u[9] % 64) + 128
        ELSE IF v = VariantMicrosoft THEN (u[9] % 32) + 192
        ELSE (u[9] % 32) + 224]

\* ------------------------------------------------------- 64-bit arithmetic

\* uint64(n) for 0 <= n < 2^31.
U64FromNat(n) ==
    <<0, 0, 0, 0, (n \div 16777216) % 256, (n \div 65536) % 256,
      (n \div 256) % 256, n % 256>>

\* uint64(n) for a signed n: two's complement for the negative ones.
U64FromInt(n) ==
    IF n >= 0 THEN U64FromNat(n)
    ELSE [i \in 1..8 |-> 255 - U64FromNat(-n - 1)[i]]

RECURSIVE CarryInto(_, _, _)
CarryInto(a, b, i) ==
    IF i = 8 THEN 0 ELSE (a[i + 1] + b[i + 1] + CarryInto(a, b, i + 1)) \div 256

\* a + b on uint64 (the carry out of the top byte is lost).
Add64(a, b) == [i \in 1..8 |-> (a[i] + b[i] + CarryInto(a, b, i)) % 256]

\* bytes.Compare(a, b) < 0 for sequences of one length; on uint64 it is a < b.
BytesLess(a, b) ==
    \E i \in 1..Len(a) : a[i] < b[i] /\ \A j \in 1..(i - 1) : a[j] = b[j]

BytesLeq(a, b) == a = b \/ BytesLess(a, b)

\* Go's integer division, which truncates toward zero.
GoDiv(a, b) == IF a >= 0 THEN a \div b ELSE -((-a) \div b)

\* binary.BigEndian.PutUint16 of a uint16.
U16Bytes(v) == <<v \div 256, v % 256>>

\* binary.BigEndian.Uint16 of two bytes.
Uint16(b) == b[1] * 256 + b[2]

\* ------------------------------------------------------------------ inputs

\* Difference in 100-nanosecond intervals between the UUID epoch and the Unix
\* epoch, 122192928000000000 = 0x01B21DD213814000.
epochStart == <<1, 178, 29, 210, 19, 129, 64, 0>>

\* The instants g.epochFunc() returns, as UnixNano(): the Unix epoch
\* (time.Unix(0, 0)), one 100 ns tick later, and 49152 ticks later, where the low
\* 16 bits of the timestamp wrap to 0 and carry into the bits above.
Instants == {0, 100, 4915200}

\* The instants time.Now() returns, as UnixNano(): 1 ms before the Unix epoch,
\* the epoch, 10 ms later, 256 ms later.
NowInstants == {-1000000, 0, 10000000, 256000000}

\* The byte values the randomness source returns.
RandByteVals == {0, 255}

\* What one io.ReadFull(g.rand, dst) does: it fills n bytes of dst, byte i with
\* pat[i % 3], and fails when n is short of len(dst).
RandOutcomes(len) ==
    [ok : {TRUE}, n : {len}, pat : [0..2 -> RandByteVals]]
        \cup [ok : {FALSE}, n : {0, len \div 2}, pat : {[i \in 0..2 |-> 254]}]

\* Stands for a read that the call does not perform.
NoRead == [ok |-> TRUE, n |-> 0, pat |-> [i \in 0..2 |-> 0]]

RandBytes(r) == [i \in 1..r.n |-> r.pat[(i - 1) % 3]]

\* io.ReadFull(g.rand, dst): the bytes read land in dst also when it fails.
ReadFull(dst, r) == Put(dst, 0, RandBytes(r))

\* What g.hwAddrFunc() returns: an address of 6 or 8 bytes, or an error.
HwOutcomes ==
    { [ok |-> TRUE, addr |-> <<0, 192, 79, 212, 48, 200>>],
      [ok |-> TRUE, addr |-> <<2, 0, 94, 16, 0, 1, 171, 205>>],
      [ok |-> FALSE, addr |-> <<>>] }

NoLookup == [ok |-> TRUE, addr |-> <<>>]

\* os.Getuid() and os.Getgid() as uint32.
posixUID == <<0, 0, 3, 232>>
posixGID == <<0, 0, 0, 100>>

\* The digests h.Sum(nil) returns: 16 bytes of MD5, 20 bytes of SHA-1.
Digests(len) ==
    { [i \in 1..len |-> IF i % 2 = 1 THEN a ELSE b] : a, b \in RandByteVals }

\* --------------------------------------------------------------- generator

\* rfc4122Generator: the two sync.Once latches (TRUE once Do has returned), the
\* fields they guard, and two records of where the guarded values came from:
\* seeded is TRUE once line 255 has stored a random clock sequence, nodeSource
\* says what filled hardwareAddr.
newRFC4122Generator ==
    [clockSequenceOnce |-> FALSE, hardwareAddrOnce |-> FALSE,
     lastTime |-> Zeros(8), clockSequence |-> 0, hardwareAddr |-> Zeros(6),
     seeded |-> FALSE, nodeSource |-> "none"]

\* g.getEpoch(): epochStart + uint64(g.epochFunc().UnixNano() / 100).
getEpoch(t) == Add64(epochStart, U64FromInt(GoDiv(t, 100)))

\* uint64(time.Now().UnixNano() / 1e6)
unixMilli(t) == U64FromInt(GoDiv(t, 1000000))

\* g.clockSequenceOnce.Do(func): a latch that is done does nothing; otherwise
\* the function reads 2 random bytes and stores them, or sets err and returns,
\* and in both cases Do marks the latch done.
clockSequenceInit(gen, r) ==
    IF gen.clockSequenceOnce THEN [g |-> gen, err |-> "none"]
    ELSE IF ~r.ok
        THEN [g |-> [gen EXCEPT !.clockSequenceOnce = TRUE], err |-> "clockseq"]
        ELSE [g |-> [gen EXCEPT !.clockSequenceOnce = TRUE,
                                !.clockSequence = Uint16(ReadFull(Zeros(2), r)),
                                !.seeded = TRUE],
              err |-> "none"]

\* clockUpdate with the comparison timeNow < g.lastTime: a reading equal to the
\* last one no longer moves the clock sequence.
clockUpdateStrictLess(gen, timeNow) ==
    [gen EXCEPT !.clockSequence =
                    IF BytesLess(timeNow, gen.lastTime)
                        THEN (gen.clockSequence + 1) % 65536
                        ELSE gen.clockSequence,
                !.lastTime = timeNow]

\* clockUpdate without the comparison: every call moves the clock sequence.
clockUpdateAlways(gen, timeNow) ==
    [gen EXCEPT !.clockSequence = (gen.clockSequence + 1) % 65536,
                !.lastTime = timeNow]

\* The body of getClockSequence under storageMutex: compare, increment, store.
clockUpdate(gen, timeNow) ==
    [gen EXCEPT !.clockSequence =
                    IF BytesLeq(timeNow, gen.lastTime)
                        THEN (gen.clockSequence + 1) % 65536
                        ELSE gen.clockSequence,
                !.lastTime = timeNow]

\* g.getClockSequence() with the seed read r and the clock reading t.
getClockSequence(gen, r, t) ==
    LET i == clockSequenceInit(gen, r) IN
    IF i.err # "none"
        THEN [g |-> i.g, timeNow |-> Zeros(8), clockSeq |-> 0, err |-> i.err]
        ELSE LET timeNow == getEpoch(t)
                 g2 == clockUpdate(i.g, timeNow)
             IN [g |-> g2, timeNow |-> timeNow, clockSeq |-> g2.clockSequence,
                 err |-> "none"]

\* g.getHardwareAddr() with the lookup result hw and the fallback read r.
getHardwareAddr(gen, hw, r) ==
    IF gen.hardwareAddrOnce
        THEN [g |-> gen, addr |-> gen.hardwareAddr, err |-> "none"]
    ELSE IF hw.ok
        THEN LET g2 == [gen EXCEPT !.hardwareAddrOnce = TRUE,
                                   !.hardwareAddr = Put(gen.hardwareAddr, 0, hw.addr),
                                   !.nodeSource = "hw"]
             IN [g |-> g2, addr |-> g2.hardwareAddr, err |-> "none"]
    ELSE LET filled == ReadFull(gen.hardwareAddr, r) IN
         IF r.ok
            THEN LET g2 == [gen EXCEPT
                                !.hardwareAddrOnce = TRUE,
                                !.hardwareAddr =
                                    [filled EXCEPT ![1] =
                                        IF filled[1] % 2 = 1 THEN filled[1]
                                        ELSE filled[1] + 1],
                                !.nodeSource = "rand"]
                 IN [g |-> g2, addr |-> g2.hardwareAddr, err |-> "none"]
            ELSE [g |-> [gen EXCEPT !.hardwareAddrOnce = TRUE,
                                    !.hardwareAddr = filled,
                                    !.nodeSource = "partial"],
                  addr |-> <<>>, err |-> "hwaddr"]

\* finalizeUUID without the variant stamp.
finalizeUUIDNoVariant(u, version) == SetVersion(u, version)

\* finalizeUUID(u, version)
finalizeUUID(u, version) == SetVariant(SetVersion(u, version), VariantRFC4122)

\* g.NewV1(); in holds the call's inputs: the seed read, the clock reading, the
\* hardware lookup and the fallback read.
NewV1(gen, in) ==
    LET c == getClockSequence(gen, in.seed, in.t) IN
    IF c.err # "none"
        THEN [g |-> c.g, u |-> Nil, err |-> c.err, timeNow |-> c.timeNow]
    ELSE LET u1 == Put(Nil, 0, SubSeq(c.timeNow, 5, 8))
             u2 == Put(u1, 4, SubSeq(c.timeNow, 3, 4))
             u3 == Put(u2, 6, SubSeq(c.timeNow, 1, 2))
             u4 == Put(u3, 8, U16Bytes(c.clockSeq))
             h == getHardwareAddr(c.g, in.hw, in.node)
         IN IF h.err # "none"
                THEN [g |-> h.g, u |-> Nil, err |-> h.err, timeNow |-> c.timeNow]
                ELSE [g |-> h.g,
                      u |-> SetVariant(SetVersion(Put(u4, 10, h.addr), V1),
                                       VariantRFC4122),
                      err |-> "none", timeNow |-> c.timeNow]

\* NewV2 that stores the domain in byte 8, under the variant stamp.
NewV2DomainInByte8(gen, in, domain) ==
    LET r == NewV1(gen, in) IN
    IF r.err # "none" THEN [r EXCEPT !.u = Nil]
    ELSE LET u1 == IF domain = DomainPerson THEN Put(r.u, 0, posixUID)
                   ELSE IF domain = DomainGroup THEN Put(r.u, 0, posixGID)
                   ELSE r.u
             u2 == [u1 EXCEPT ![9] = domain]
         IN [r EXCEPT !.u = SetVariant(SetVersion(u2, V2), VariantRFC4122)]

\* g.NewV2(domain)
NewV2(gen, in, domain) ==
    LET r == NewV1(gen, in) IN
    IF r.err # "none" THEN [r EXCEPT !.u = Nil]
    ELSE LET u1 == IF domain = DomainPerson THEN Put(r.u, 0, posixUID)
                   ELSE IF domain = DomainGroup THEN Put(r.u, 0, posixGID)
                   ELSE r.u
             u2 == [u1 EXCEPT ![10] = domain]
         IN [r EXCEPT !.u = SetVariant(SetVersion(u2, V2), VariantRFC4122)]

\* newFromHash(h, ns, name): the first 16 bytes of the digest sum.
newFromHash(sum) == Put(Nil, 0, sum)

\* g.NewV3(ns, name) with the MD5 digest sum of the namespace and the name.
NewV3(sum) == finalizeUUID(newFromHash(sum), V3)

\* g.NewV5(ns, name) with the SHA-1 digest sum.
NewV5(sum) == finalizeUUID(newFromHash(sum), V5)

\* NewV4 that hands out what the failed read left in u.
NewV4KeepsPartial(r) ==
    [u |-> finalizeUUID(ReadFull(Nil, r), V4),
     err |-> IF r.ok THEN "none" ELSE "rand"]

\* g.NewV4() with the random read r.
NewV4(r) ==
    LET u == ReadFull(Nil, r) IN
    IF ~r.ok THEN [u |-> Nil, err |-> "rand"]
    ELSE [u |-> finalizeUUID(u, V4), err |-> "none"]

\* NewV6 with time_low and time_high exchanged: the low 16 bits lead.
NewV6LowFirst(gen, in) ==
    LET c == getClockSequence(gen, in.seed, in.t) IN
    IF c.err # "none"
        THEN [g |-> c.g, u |-> Nil, err |-> c.err, timeNow |-> c.timeNow]
    ELSE LET u1 == Put(Nil, 0, SubSeq(c.timeNow, 7, 8))
             u2 == Put(u1, 2, SubSeq(c.timeNow, 3, 6))
             u3 == Put(u2, 6, SubSeq(c.timeNow, 1, 2))
             u4 == Put(u3, 8, U16Bytes(c.clockSeq))
             h == getHardwareAddr(c.g, in.hw, in.node)
         IN IF h.err # "none"
                THEN [g |-> h.g, u |-> Nil, err |-> h.err, timeNow |-> c.timeNow]
                ELSE [g |-> h.g,
                      u |-> SetVariant(SetVersion(Put(u4, 10, h.addr), V6),
                                       VariantRFC4122),
                      err |-> "none", timeNow |-> c.timeNow]

\* g.NewV6()
NewV6(gen, in) ==
    LET c == getClockSequence(gen, in.seed, in.t) IN
    IF c.err # "none"
        THEN [g |-> c.g, u |-> Nil, err |-> c.err, timeNow |-> c.timeNow]
    ELSE LET u1 == Put(Nil, 0, SubSeq(c.timeNow, 1, 2))
             u2 == Put(u1, 2, SubSeq(c.timeNow, 3, 6))
             u3 == Put(u2, 6, SubSeq(c.timeNow, 7, 8))
             u4 == Put(u3, 8, U16Bytes(c.clockSeq))
             h == getHardwareAddr(c.g, in.hw, in.node)
         IN IF h.err # "none"
                THEN [g |-> h.g, u |-> Nil, err |-> h.err, timeNow |-> c.timeNow]
                ELSE [g |-> h.g,
                      u |-> SetVariant(SetVersion(Put(u4, 10, h.addr), V6),
                                       VariantRFC4122),
                      err |-> "none", timeNow |-> c.timeNow]

\* putUint48 that writes the low 6 bytes least significant first.
putUint48LittleEndian(b, v) ==
    IF Len(b) < 6 THEN b
    ELSE Put(b, 0, [i \in 1..6 |-> v[9 - i]])

\* putUint48(b, v): the low 6 bytes of v, most significant first.
putUint48(b, v) == IF Len(b) < 6 THEN b ELSE Put(b, 0, SubSeq(v, 3, 8))

\* g.NewV7() with the system clock reading t (time.Now()) and the random read r
\* of the 10 bytes u[6:].
NewV7(t, r) ==
    LET timeNow == unixMilli(t)
        u1 == Put(Nil, 0, putUint48(SubSeq(Nil, 1, 6), timeNow))
        u2 == Put(u1, 6, ReadFull(SubSeq(u1, 7, 16), r))
    IN IF ~r.ok THEN [u |-> Nil, err |-> "rand", timeNow |-> timeNow]
       ELSE [u |-> SetVariant(SetVersion(u2, V7), VariantRFC4122),
             err |-> "none", timeNow |-> timeNow]

\* ------------------------------------------------------------------- codec

dash == 45
lbrace == 123
rbrace == 125

\* urnPrefix = []byte("urn:uuid:")
urnPrefix == <<117, 114, 110, 58, 117, 117, 105, 100, 58>>

\* byteGroups = []int{8, 4, 4, 4, 12}
byteGroups == <<8, 4, 4, 4, 12>>

\* encoding/hex: the digit of a nibble, "0123456789abcdef"[n].
HexDigit(n) == IF n < 10 THEN 48 + n ELSE 87 + n

\* encoding/hex: the nibble of a digit 0-9, a-f, A-F, or 255 for any other byte.
FromHexChar(c) ==
    IF c >= 48 /\ c <= 57 THEN c - 48
    ELSE IF c >= 97 /\ c <= 102 THEN c - 87
    ELSE IF c >= 65 /\ c <= 70 THEN c - 55
    ELSE 255

\* hex.Encode(dst, src)
HexEncode(src) ==
    [i \in 1..(2 * Len(src)) |->
        IF i % 2 = 1 THEN HexDigit(src[(i + 1) \div 2] \div 16)
        ELSE HexDigit(src[i \div 2] % 16)]

\* hex.Decode(dst, src) from pair k on: each pair of digits becomes a byte of
\* dst; the first byte that is no digit ends the decoding with an error and
\* leaves the bytes decoded so far in dst; an odd length is an error.
RECURSIVE HexDecodeFrom(_, _, _)
HexDecodeFrom(dst, src, k) ==
    IF 2 * k + 1 < Len(src)
        THEN LET a == FromHexChar(src[2 * k + 1])
                 b == FromHexChar(src[2 * k + 2])
             IN IF a > 15 \/ b > 15 THEN [dst |-> dst, err |-> "hex"]
                ELSE HexDecodeFrom([dst EXCEPT ![k + 1] = a * 16 + b], src, k + 1)
    ELSE IF Len(src) % 2 = 1 THEN [dst |-> dst, err |-> "hex"]
    ELSE [dst |-> dst, err |-> "none"]

HexDecode(dst, src) == HexDecodeFrom(dst, src, 0)

\* u.String(): the canonical lower-case text, 8-4-4-4-12 digits with dashes.
String(u) ==
    HexEncode(SubSeq(u, 1, 4)) \o <<dash>> \o HexEncode(SubSeq(u, 5, 6)) \o <<dash>>
        \o HexEncode(SubSeq(u, 7, 8)) \o <<dash>> \o HexEncode(SubSeq(u, 9, 10))
        \o <<dash>> \o HexEncode(SubSeq(u, 11, 16))

\* u.MarshalText()
MarshalText(u) == String(u)

\* decodeCanonical from group i on: tOff characters of t and dOff bytes of u
\* are consumed; a dash is skipped before every group but the first.
RECURSIVE DecodeGroups(_, _, _, _, _)
DecodeGroups(u, t, i, tOff, dOff) ==
    IF i > Len(byteGroups) THEN [u |-> u, err |-> "none"]
    ELSE LET from == IF i > 1 THEN tOff + 1 ELSE tOff
             n == byteGroups[i]
             r == HexDecode(SubSeq(u, dOff + 1, dOff + n \div 2),
                            SubSeq(t, from + 1, from + n))
             u2 == Put(u, dOff, r.dst)
         IN IF r.err # "none" THEN [u |-> u2, err |-> r.err]
            ELSE DecodeGroups(u2, t, i + 1, from + n, dOff + n \div 2)

\* decodeCanonical that does not look at offset 23.
decodeCanonicalUnchecked23(u, t) ==
    IF t[9] # dash \/ t[14] # dash \/ t[19] # dash
        THEN [u |-> u, err |-> "format"]
        ELSE DecodeGroups(u, t, 1, 0, 0)

\* u.decodeCanonical(t)
decodeCanonical(u, t) ==
    IF t[9] # dash \/ t[14] # dash \/ t[19] # dash \/ t[24] # dash
        THEN [u |-> u, err |-> "format"]
        ELSE DecodeGroups(u, t, 1, 0, 0)

\* u.decodeHashLike(t)
decodeHashLike(u, t) ==
    LET r == HexDecode(u, t) IN
    [u |-> r.dst, err |-> IF r.err # "none" THEN "hashlike" ELSE "none"]

\* u.decodePlain(t)
decodePlain(u, t) ==
    IF Len(t) = 32 THEN decodeHashLike(u, t)
    ELSE IF Len(t) = 36 THEN decodeCanonical(u, t)
    ELSE [u |-> u, err |-> "length"]

\* u.decodeBraced(t)
decodeBraced(u, t) ==
    IF Len(t) < 2 \/ t[1] # lbrace \/ t[Len(t)] # rbrace
        THEN [u |-> u, err |-> "format"]
        ELSE decodePlain(u, SubSeq(t, 2, Len(t) - 1))

\* decodeURN that takes the prefix to be 8 bytes long.
decodeURNShortPrefix(u, t) ==
    IF Len(t) < 9 \/ SubSeq(t, 1, 9) # urnPrefix
        THEN [u |-> u, err |-> "urn"]
        ELSE decodePlain(u, SubSeq(t, 9, Len(t)))

\* u.decodeURN(t)
decodeURN(u, t) ==
    IF Len(t) < 9 \/ SubSeq(t, 1, 9) # urnPrefix
        THEN [u |-> u, err |-> "urn"]
        ELSE decodePlain(u, SubSeq(t, 10, Len(t)))

\* u.UnmarshalText(text): the receiver after the call, and the error.
UnmarshalText(u, text) ==
    IF Len(text) = 32 THEN decodeHashLike(u, text)
    ELSE IF Len(text) = 36 THEN decodeCanonical(u, text)
    ELSE IF Len(text) = 38 THEN decodeBraced(u, text)
    ELSE IF Len(text) = 41 \/ Len(text) = 45 THEN decodeURN(u, text)
    ELSE [u |-> u, err |-> "length"]

\* FromString(input)
FromString(input) ==
    LET r == UnmarshalText(Nil, input) IN
    IF r.err # "none" THEN [u |-> Nil, err |-> "parse"] ELSE r

\* u.Bytes(): the slice u[:] of the 16 bytes.
Bytes(u) == SubSeq(u, 1, Size)

\* u.MarshalBinary()
MarshalBinary(u) == Bytes(u)

\* UnmarshalBinary that copies all but the last byte of data.
UnmarshalBinaryDropsLast(u, data) ==
    IF Len(data) # Size THEN [u |-> u, err |-> "length"]
    ELSE [u |-> Put(u, 0, SubSeq(data, 1, Size - 1)), err |-> "none"]

\* u.UnmarshalBinary(data): the receiver after the call, and the error.
UnmarshalBinary(u, data) ==
    IF Len(data) # Size THEN [u |-> u, err |-> "length"]
    ELSE [u |-> Put(u, 0, data), err |-> "none"]

\* FromBytes that refuses only an input shorter than 16 bytes and decodes the
\* first 16 bytes of a longer one.
FromBytesPrefix(input) ==
    IF Len(input) < Size THEN [u |-> Nil, err |-> "length"]
    ELSE UnmarshalBinary(Nil, SubSeq(input, 1, Size))

\* FromBytes(input); the result u starts as the zero value.
FromBytes(input) ==
    IF Len(input) # Size THEN [u |-> Nil, err |-> "length"]
    ELSE UnmarshalBinary(Zeros(Size), input)

\* FromBytesOrNil(input)
FromBytesOrNil(input) ==
    LET r == FromBytes(input) IN IF r.err # "none" THEN Nil ELSE r.u

\* ------------------------------------------------------------------- state

VARIABLES
    g,      \* the generator
    calls,  \* the number of calls made on it
    prev,   \* the call before the last one
    cur     \* the last call: what was called, with which inputs, what it returned

genVars == <<g, calls, prev, cur>>

VARIABLES
    pc,            \* where each goroutine stands in getClockSequence
    timeNowOf,     \* each goroutine's local variable timeNow
    storageMutex,  \* the goroutine that holds g.storageMutex, or 0
    issued         \* the first pair getClockSequence returned, and whether a
                   \* later call returned that pair again

concVars == <<pc, timeNowOf, storageMutex, issued>>

VARIABLES
    id,     \* the identifier that is encoded
    form,   \* the rendering of it that text holds, "none" before the encoding
    text,   \* the text that is decoded
    edits,  \* the number of edits made to text
    dec     \* the decoding call made: the receiver before and after, the error

codecVars == <<id, form, text, edits, dec>>

VARIABLES
    data,   \* the byte slice that is decoded
    bin     \* the binary calls made: the decoding of data, the encoding of its
            \* result, the decoding of that encoding

binVars == <<data, bin>>

vars ==
    <<g, calls, prev, cur, pc, timeNowOf, storageMutex, issued,
      id, form, text, edits, dec, data, bin>>

Procs == 1..NumProcs

\* A call record: the operation, the identifier and error it returned, the
\* clock reading t it sampled and the timestamp it made of it, its domain byte,
\* whether a random read or the hardware lookup failed during it, and whether
\* an earlier call on the generator failed while initializing a latch.
NoCall ==
    [op |-> 0, u |-> Nil, err |-> "none", t |-> 0, timeNow |-> Zeros(8),
     domain |-> 0, readFailed |-> FALSE, lookupFailed |-> FALSE,
     latchFailedBefore |-> FALSE]

TimeOps == {V1, V2, V6}

\* The inputs of a v1, v2 or v6 call, only the reads the call performs: the
\* seed read while the clock-sequence latch is open, the hardware lookup while
\* the hardware latch is open and the call has got that far, the fallback read
\* when the lookup fails.
TimeInputs(gen) ==
    UNION { UNION { { [seed |-> seed, t |-> t, hw |-> hw, node |-> node] :
                        t \in Instants,
                        node \in IF hw.ok THEN {NoRead} ELSE RandOutcomes(6) } :
                    hw \in IF gen.hardwareAddrOnce \/ ~seed.ok
                              THEN {NoLookup} ELSE HwOutcomes } :
            seed \in IF gen.clockSequenceOnce THEN {NoRead} ELSE RandOutcomes(2) }

\* A read of the randomness source failed during the call.
TimeReadFailed(gen, in) == ~in.seed.ok \/ ~in.node.ok

\* The hardware lookup was made during the call and failed.
TimeLookupFailed(gen, in) == ~in.hw.ok

\* The call is counted and recorded as the last one.
Record(op, r, t, domain, readFailed, lookupFailed) ==
    /\ calls < MaxCalls
    /\ calls' = calls + 1
    /\ cur' = [op |-> op, u |-> r.u, err |-> r.err, t |-> t,
               timeNow |-> r.timeNow, domain |-> domain,
               readFailed |-> readFailed, lookupFailed |-> lookupFailed,
               latchFailedBefore |->
                    cur.latchFailedBefore \/ (cur.op \in TimeOps /\ cur.readFailed)]

\* The domain bytes NewV2 is called with: the three named ones and ff.
Domains == {DomainPerson, DomainGroup, DomainOrg, 255}

CallNewV1 ==
    \E in \in TimeInputs(g) :
        LET r == NewV1(g, in) IN
        /\ g' = r.g
        /\ Record(V1, r, in.t, 0, TimeReadFailed(g, in), TimeLookupFailed(g, in))

CallNewV2 ==
    \E in \in TimeInputs(g), domain \in Domains :
        LET r == NewV2(g, in, domain) IN
        /\ g' = r.g
        /\ Record(V2, r, in.t, domain, TimeReadFailed(g, in),
                  TimeLookupFailed(g, in))

CallNewV3 ==
    \E sum \in Digests(16) :
        /\ g' = g
        /\ Record(V3, [u |-> NewV3(sum), err |-> "none", timeNow |-> Zeros(8)],
                  0, 0, FALSE, FALSE)

CallNewV4 ==
    \E r \in RandOutcomes(16) :
        LET res == NewV4(r) IN
        /\ g' = g
        /\ Record(V4, [u |-> res.u, err |-> res.err, timeNow |-> Zeros(8)],
                  0, 0, ~r.ok, FALSE)

CallNewV5 ==
    \E sum \in Digests(20) :
        /\ g' = g
        /\ Record(V5, [u |-> NewV5(sum), err |-> "none", timeNow |-> Zeros(8)],
                  0, 0, FALSE, FALSE)

CallNewV6 ==
    \E in \in TimeInputs(g) :
        LET r == NewV6(g, in) IN
        /\ g' = r.g
        /\ Record(V6, r, in.t, 0, TimeReadFailed(g, in), TimeLookupFailed(g, in))

CallNewV7 ==
    \E t \in NowInstants, r \in RandOutcomes(10) :
        /\ g' = g
        /\ Record(V7, NewV7(t, r), t, 0, ~r.ok, FALSE)

NoPair == [set |-> FALSE, timeNow |-> Zeros(8), clockSeq |-> 0, again |-> FALSE]

NoDecode == [op |-> "none", before |-> Nil, u |-> Nil, err |-> "none"]

\* A new generator, no goroutine in it, nothing encoded or decoded.
InitGenerator ==
    /\ g = newRFC4122Generator
    /\ calls = 0
    /\ prev = NoCall
    /\ cur = NoCall
    /\ pc = [p \in Procs |-> "idle"]
    /\ timeNowOf = [p \in Procs |-> Zeros(8)]
    /\ storageMutex = 0
    /\ issued = NoPair

InitCodec ==
    /\ form = "none"
    /\ text = <<>>
    /\ edits = 0
    /\ dec = NoDecode

\* No binary call made: stage counts the calls, op, before, u and err are the
\* first decoding, enc the encoding of u, again the decoding of enc.
NoBinary ==
    [stage |-> 0, op |-> "none", before |-> Nil, u |-> Nil, err |-> "none",
     enc |-> <<>>, again |-> [u |-> Nil, err |-> "none"]]

InitBinary ==
    /\ data = <<>>
    /\ bin = NoBinary

Init == InitGenerator /\ InitCodec /\ InitBinary /\ id = Nil

\* Any calls on one generator, one after the other; the last call is observed.
Next ==
    \/ CallNewV1 /\ UNCHANGED <<prev, concVars, codecVars, binVars>>
    \/ CallNewV2 /\ UNCHANGED <<prev, concVars, codecVars, binVars>>
    \/ CallNewV3 /\ UNCHANGED <<prev, concVars, codecVars, binVars>>
    \/ CallNewV4 /\ UNCHANGED <<prev, concVars, codecVars, binVars>>
    \/ CallNewV5 /\ UNCHANGED <<prev, concVars, codecVars, binVars>>
    \/ CallNewV6 /\ UNCHANGED <<prev, concVars, codecVars, binVars>>
    \/ CallNewV7 /\ UNCHANGED <<prev, concVars, codecVars, binVars>>

Spec == Init /\ [][Next]_vars

\* Time-based calls on one generator; the last two calls are observed.
NextTime ==
    \/ CallNewV1 /\ prev' = cur /\ UNCHANGED <<concVars, codecVars, binVars>>
    \/ CallNewV2 /\ prev' = cur /\ UNCHANGED <<concVars, codecVars, binVars>>
    \/ CallNewV6 /\ prev' = cur /\ UNCHANGED <<concVars, codecVars, binVars>>

SpecTime == Init /\ [][NextTime]_vars

\* v7 calls; the last two calls are observed.
NextV7 == CallNewV7 /\ prev' = cur /\ UNCHANGED <<concVars, codecVars, binVars>>

SpecV7 == Init /\ [][NextV7]_vars

\* ------------------------------------------------ concurrent getClockSequence

\* The generator of TestNewV1EpochStale: epochFunc returns time.Unix(0, 0) on
\* every call.
StaleInstants == {0}

\* The seed reads of its randomness source: the bytes ff ff, or a failure.
StaleSeedReads == { r \in RandOutcomes(2) : ~r.ok \/ RandBytes(r) = <<255, 255>> }

\* g.clockSequenceOnce.Do(...) and the error check after it (lines 249-259).
\* Do runs the initializer in one goroutine while the others wait in Do.
EnterOnce(p) ==
    /\ pc[p] = "idle"
    /\ \E r \in IF g.clockSequenceOnce THEN {NoRead} ELSE StaleSeedReads :
            LET i == clockSequenceInit(g, r) IN
            /\ g' = i.g
            /\ pc' = [pc EXCEPT ![p] = IF i.err # "none" THEN "idle" ELSE "entered"]
    /\ UNCHANGED <<calls, prev, cur, timeNowOf, storageMutex, issued, codecVars, binVars>>

\* g.storageMutex.Lock() (line 261)
Lock(p) ==
    /\ pc[p] = "entered"
    /\ storageMutex = 0
    /\ storageMutex' = p
    /\ pc' = [pc EXCEPT ![p] = "locked"]
    /\ UNCHANGED <<g, calls, prev, cur, timeNowOf, issued, codecVars, binVars>>

\* timeNow := g.getEpoch() (line 264)
Sample(p) ==
    /\ pc[p] = "locked"
    /\ \E t \in StaleInstants : timeNowOf' = [timeNowOf EXCEPT ![p] = getEpoch(t)]
    /\ pc' = [pc EXCEPT ![p] = "sampled"]
    /\ UNCHANGED <<g, calls, prev, cur, storageMutex, issued, codecVars, binVars>>

\* The compare, the increment and the store of lastTime (lines 265-268).
Update(p) ==
    /\ pc[p] = "sampled"
    /\ g' = clockUpdate(g, timeNowOf[p])
    /\ pc' = [pc EXCEPT ![p] = "updated"]
    /\ UNCHANGED <<calls, prev, cur, timeNowOf, storageMutex, issued, codecVars, binVars>>

\* return timeNow, g.clockSequence, nil and the deferred Unlock (lines 262, 270);
\* the goroutine's frame, with its timeNow, is gone.
Return(p) ==
    /\ pc[p] = "updated"
    /\ issued' =
            IF ~issued.set
                THEN [set |-> TRUE, timeNow |-> timeNowOf[p],
                      clockSeq |-> g.clockSequence, again |-> FALSE]
            ELSE IF issued.timeNow = timeNowOf[p] /\ issued.clockSeq = g.clockSequence
                THEN [issued EXCEPT !.again = TRUE]
            ELSE issued
    /\ storageMutex' = 0
    /\ timeNowOf' = [timeNowOf EXCEPT ![p] = Zeros(8)]
    /\ pc' = [pc EXCEPT ![p] = "idle"]
    /\ UNCHANGED <<g, calls, prev, cur, codecVars, binVars>>

NextConc ==
    \E p \in Procs :
        \/ EnterOnce(p)
        \/ Lock(p)
        \/ Sample(p)
        \/ Update(p)
        \/ Return(p)

SpecConc == Init /\ [][NextConc]_vars

\* ------------------------------------------------------- encode and decode

\* The identifiers encoded: the one of the tests (6ba7b810-9dad-11d1-80b4-
\* 00c04fd430c8), Nil, all bytes ff, and one with the digits the first lacks.
CodecIds ==
    { <<107, 167, 184, 16, 157, 173, 17, 209, 128, 180, 0, 192, 79, 212, 48, 200>>,
      Nil,
      [i \in 1..Size |-> 255],
      <<37, 94, 226, 239, 1, 35, 69, 103, 137, 171, 205, 239, 254, 220, 186, 152>> }

\* The receivers UnmarshalText is called on.
Receivers == {Nil, [i \in 1..Size |-> 255]}

\* The characters an edit writes: '-', 'g', 'A', '}'.
EditChars == {dash, 103, 65, rbrace}

RemoveDashes(t) == SelectSeq(t, LAMBDA c : c # dash)

\* u.MarshalText(): text holds the canonical form of id.
DoMarshalText ==
    /\ form = "none" /\ dec.op = "none"
    /\ text' = MarshalText(id)
    /\ form' = "canonical"
    /\ UNCHANGED <<id, edits, dec, genVars, concVars, binVars>>

\* The other renderings of the same digits: the four that TestFromString decodes
\* and the braced hash-like one of the grammar ('{' plain '}').
Rewrite ==
    /\ form = "canonical" /\ edits = 0 /\ dec.op = "none"
    /\ \/ form' = "braced" /\ text' = <<lbrace>> \o text \o <<rbrace>>
       \/ form' = "urn" /\ text' = urnPrefix \o text
       \/ form' = "hashlike" /\ text' = RemoveDashes(text)
       \/ form' = "urnhashlike" /\ text' = urnPrefix \o RemoveDashes(text)
       \/ form' = "bracedhashlike"
            /\ text' = <<lbrace>> \o RemoveDashes(text) \o <<rbrace>>
    /\ UNCHANGED <<id, edits, dec, genVars, concVars, binVars>>

\* One character of the text is replaced, removed or inserted.
Edit ==
    /\ form # "none" /\ edits < MaxEdits /\ dec.op = "none"
    /\ edits' = edits + 1
    /\ \/ \E i \in 1..Len(text), c \in EditChars :
            /\ text[i] # c
            /\ text' = [text EXCEPT ![i] = c]
       \/ \E i \in 1..Len(text) :
            text' = SubSeq(text, 1, i - 1) \o SubSeq(text, i + 1, Len(text))
       \/ \E i \in 0..Len(text), c \in EditChars :
            text' = SubSeq(text, 1, i) \o <<c>> \o SubSeq(text, i + 1, Len(text))
    /\ UNCHANGED <<id, form, dec, genVars, concVars, binVars>>

\* FromString(text)
DoFromString ==
    /\ dec.op = "none"
    /\ LET r == FromString(text) IN
       dec' = [op |-> "FromString", before |-> Nil, u |-> r.u, err |-> r.err]
    /\ UNCHANGED <<id, form, text, edits, genVars, concVars, binVars>>

\* u.UnmarshalText(text) on a receiver u.
DoUnmarshalText ==
    /\ dec.op = "none"
    /\ \E u \in Receivers :
            LET r == UnmarshalText(u, text) IN
            dec' = [op |-> "UnmarshalText", before |-> u, u |-> r.u, err |-> r.err]
    /\ UNCHANGED <<id, form, text, edits, genVars, concVars, binVars>>

InitEncode == InitGenerator /\ InitCodec /\ InitBinary /\ id \in CodecIds

NextCodec ==
    \/ DoMarshalText
    \/ Rewrite
    \/ Edit
    \/ DoFromString
    \/ DoUnmarshalText

SpecCodec == InitEncode /\ [][NextCodec]_vars

\* ------------------------------------------------------- binary decoding

\* The lengths of the byte slices decoded: empty, short, exact, long.
BinLengths == {0, 1, Size - 1, Size, Size + 1, 2 * Size}

\* The byte slices decoded: byte i is pat[i % 3]; 107 is the first byte of the
\* identifier of the tests.
BinInputs ==
    UNION { { [i \in 1..n |-> pat[(i - 1) % 3]] : pat \in [0..2 -> {0, 107, 255}] } :
            n \in BinLengths }

\* FromBytes(data)
DoFromBytes ==
    /\ bin.stage = 0
    /\ LET r == FromBytes(data) IN
       bin' = [bin EXCEPT !.stage = 1, !.op = "FromBytes", !.u = r.u, !.err = r.err]
    /\ UNCHANGED <<data, genVars, concVars, codecVars>>

\* FromBytesOrNil(data), which returns no error.
DoFromBytesOrNil ==
    /\ bin.stage = 0
    /\ bin' = [bin EXCEPT !.stage = 1, !.op = "FromBytesOrNil",
                          !.u = FromBytesOrNil(data)]
    /\ UNCHANGED <<data, genVars, concVars, codecVars>>

\* u.UnmarshalBinary(data) on a receiver u.
DoUnmarshalBinary ==
    /\ bin.stage = 0
    /\ \E u \in Receivers :
            LET r == UnmarshalBinary(u, data) IN
            bin' = [bin EXCEPT !.stage = 1, !.op = "UnmarshalBinary",
                               !.before = u, !.u = r.u, !.err = r.err]
    /\ UNCHANGED <<data, genVars, concVars, codecVars>>

\* u.MarshalBinary() of the identifier decoded.
DoMarshalBinary ==
    /\ bin.stage = 1
    /\ bin' = [bin EXCEPT !.stage = 2, !.enc = MarshalBinary(bin.u)]
    /\ UNCHANGED <<data, genVars, concVars, codecVars>>

\* FromBytes of the encoding.
DoFromBytesAgain ==
    /\ bin.stage = 2
    /\ bin' = [bin EXCEPT !.stage = 3, !.again = FromBytes(bin.enc)]
    /\ UNCHANGED <<data, genVars, concVars, codecVars>>

InitDecodeBinary ==
    /\ InitGenerator /\ InitCodec /\ id = Nil
    /\ data \in BinInputs
    /\ bin = NoBinary

NextBinary ==
    \/ DoFromBytes
    \/ DoFromBytesOrNil
    \/ DoUnmarshalBinary
    \/ DoMarshalBinary
    \/ DoFromBytesAgain

SpecBinary == InitDecodeBinary /\ [][NextBinary]_vars

\* ------------------------------------------------- claims on the generator

Ok(c) == c.op # 0 /\ c.err = "none"

\* Both of the last two calls were successful calls of op.
TwoCalls(op) == prev.op = op /\ cur.op = op /\ Ok(prev) /\ Ok(cur)

Lead(u) == SubSeq(u, 1, 6)

\* C2 as stated: of two consecutive successful NewV6 calls the second returns a
\* timestamp, and bytes 0-5, not less than the first, whatever the clock did.
C2_V6NonDecreasingAnyClock ==
    TwoCalls(V6) =>
        /\ BytesLeq(prev.timeNow, cur.timeNow)
        /\ BytesLeq(Lead(prev.u), Lead(cur.u))

\* C2 amended: getClockSequence returns the timestamp it sampled, so of two
\* consecutive successful NewV6 calls the second returns a timestamp, and bytes
\* 0-5, not less than the first whenever the clock reading of the second call
\* is not earlier than that of the first.
C2_V6NonDecreasingForwardClock ==
    (TwoCalls(V6) /\ prev.t <= cur.t) =>
        /\ BytesLeq(prev.timeNow, cur.timeNow)
        /\ BytesLeq(Lead(prev.u), Lead(cur.u))

\* Two NewV6 calls with the clock advancing past a carry out of the low 16 bits.
C2_Witness ==
    /\ TwoCalls(V6)
    /\ prev.t < cur.t
    /\ BytesLess(Lead(prev.u), Lead(cur.u))

\* C3 as stated: of two consecutive successful NewV7 calls the second has bytes
\* 0-5 not less than the first, whatever the system clock did.
C3_V7NonDecreasingAnyClock ==
    TwoCalls(V7) => BytesLeq(Lead(prev.u), Lead(cur.u))

\* C3 amended: of two consecutive successful NewV7 calls the second has bytes
\* 0-5 not less than the first whenever the system clock did not go backward
\* between them and the first reading is not before the Unix epoch.
C3_V7NonDecreasingForwardClock ==
    (TwoCalls(V7) /\ 0 <= prev.t /\ prev.t <= cur.t) =>
        BytesLeq(Lead(prev.u), Lead(cur.u))

\* Two NewV7 calls 246 ms apart: the second timestamp needs a second byte.
C3_Witness ==
    /\ TwoCalls(V7)
    /\ 0 < prev.t /\ prev.t < cur.t
    /\ BytesLess(Lead(prev.u), Lead(cur.u))
    /\ cur.u[5] # 0

\* C4: two consecutive successful NewV1 calls return unequal identifiers, both
\* of version 1 and variant RFC4122.
C4_V1ConsecutiveDiffer ==
    TwoCalls(V1) =>
        /\ prev.u # cur.u
        /\ Version(prev.u) = V1 /\ Version(cur.u) = V1
        /\ Variant(prev.u) = VariantRFC4122 /\ Variant(cur.u) = VariantRFC4122

\* Two NewV1 calls at one instant of a stale clock.
C4_Witness == TwoCalls(V1) /\ prev.t = cur.t /\ prev.timeNow = cur.timeNow

\* C5: an identifier NewVn returns has version n and variant RFC4122.
C5_VersionAndVariant ==
    Ok(cur) => Version(cur.u) = cur.op /\ Variant(cur.u) = VariantRFC4122

\* A v4 identifier made of random bytes 255: the stamps cleared bits of bytes 6
\* and 8.
C5_Witness == Ok(cur) /\ cur.op = V4 /\ cur.u[7] = 79 /\ cur.u[9] = 191

\* C6: a call during which a read of the randomness source failed returns the
\* Nil identifier and an error.
C6_FailedReadGivesNil == cur.readFailed => cur.err # "none" /\ cur.u = Nil

\* A time-based call whose fallback read failed after filling 3 bytes of the
\* node identifier.
C6_Witness ==
    /\ cur.op \in TimeOps /\ cur.readFailed /\ cur.lookupFailed
    /\ g.hardwareAddr # Zeros(6)

\* The node identifiers a complete fallback read produces: 6 random bytes with
\* the multicast bit set.
RandomNodes ==
    { [i \in 1..6 |-> IF i = 1 /\ RandBytes(r)[1] % 2 = 0
                        THEN RandBytes(r)[1] + 1 ELSE RandBytes(r)[i]] :
        r \in { x \in RandOutcomes(6) : x.ok } }

\* C7 as stated: a successful v1/v2/v6 call that follows a call failed in latch
\* initialization carries a randomly seeded clock sequence and a node identifier
\* that is the hardware address or 6 random bytes with the multicast bit.
C7_NoPartialLatchObserved ==
    (cur.op \in TimeOps /\ Ok(cur) /\ cur.latchFailedBefore) =>
        /\ g.seeded
        /\ \/ g.nodeSource = "hw"
           \/ g.nodeSource = "rand" /\ SubSeq(cur.u, 11, 16) \in RandomNodes

\* C8 as stated: once the hardware lookup has failed, a v1/v2/v6 call does not
\* fail for that reason, and an identifier it returns has bytes 10-15 read from
\* the randomness source, with the multicast bit set.
C8_RandomNodeOnLookupFailure ==
    /\ (cur.op \in TimeOps /\ cur.lookupFailed /\ ~cur.readFailed) => Ok(cur)
    /\ (cur.op \in TimeOps /\ Ok(cur) /\ g.nodeSource \notin {"none", "hw"}) =>
            /\ g.nodeSource = "rand"
            /\ SubSeq(cur.u, 11, 16) \in RandomNodes

\* C14: an identifier NewV2(d) returns has byte 9 equal to d, and bytes 0-3
\* hold the user id for the person domain, the group id for the group domain
\* and the low 32 bits of the timestamp for every other d.
C14_V2DomainAndIds ==
    (cur.op = V2 /\ Ok(cur)) =>
        /\ cur.u[10] = cur.domain
        /\ SubSeq(cur.u, 1, 4) =
                IF cur.domain = DomainPerson THEN posixUID
                ELSE IF cur.domain = DomainGroup THEN posixGID
                ELSE SubSeq(cur.timeNow, 5, 8)

\* NewV2(0xff) returned an identifier with the timestamp bits 13 82 00 00.
C14_Witness ==
    /\ cur.op = V2 /\ Ok(cur) /\ cur.domain = 255
    /\ cur.u[10] = 255
    /\ SubSeq(cur.u, 1, 4) = <<19, 130, 0, 0>>

\* C15 as stated: a getClockSequence call after the first returns a clock
\* sequence strictly greater than the previous call's when the timestamp it
\* samples is not greater than the recorded one, and the same clock sequence
\* when it is greater.
C15_ClockSeqStrictlyGreater ==
    [][(g.clockSequenceOnce /\ calls' = calls + 1) =>
            IF BytesLeq(g'.lastTime, g.lastTime)
                THEN g'.clockSequence > g.clockSequence
                ELSE g'.clockSequence = g.clockSequence]_vars

\* C15 amended: the clock sequence is a uint16, so such a call returns the
\* previous clock sequence plus one modulo 65536 (0 after 65535) when the
\* timestamp it samples is not greater than the recorded one, and the same
\* clock sequence when it is greater.
C15_ClockSeqNextModulo ==
    [][(g.clockSequenceOnce /\ calls' = calls + 1) =>
            IF BytesLeq(g'.lastTime, g.lastTime)
                THEN g'.clockSequence = (g.clockSequence + 1) % 65536
                ELSE g'.clockSequence = g.clockSequence]_vars

\* Two calls at one instant on a generator seeded with ff ff: the second call
\* moved the clock sequence from 65535 to 0.
C15_Witness ==
    /\ prev.op \in TimeOps /\ cur.op \in TimeOps
    /\ prev.err # "clockseq" /\ prev.timeNow = cur.timeNow
    /\ g.seeded /\ g.clockSequence = 0

\* C17 as stated: a latch whose initializer failed is not left done, so the
\* next call runs the initializer again: a latch is done only when its
\* initializer has stored a seed, or a node identifier.
C17_FailedLatchRetried ==
    /\ g.clockSequenceOnce => g.seeded
    /\ g.hardwareAddrOnce => g.nodeSource \in {"hw", "rand"}

\* C19 as stated: two consecutive successful NewV2 calls with one domain byte
\* return unequal identifiers, also at one instant of the clock (stated for a
\* generator none of whose latch initializers has failed).
C19_V2ConsecutiveDiffer ==
    (TwoCalls(V2) /\ prev.domain = cur.domain /\ ~cur.latchFailedBefore) =>
        prev.u # cur.u

\* C16 as stated: every caller that has passed the clock-sequence latch has
\* seen the result of its one initializer run: no caller is past the latch
\* when the run failed to store a seed.
C16_LatchResultShared ==
    \A p \in Procs : pc[p] # "idle" => g.seeded

\* C1 as stated: no two calls of getClockSequence on one generator obtain the
\* same (timestamp, clock sequence) pair, whatever the clock source does.
C1_NoPairIssuedTwice == ~issued.again

\* --------------------------------------------------- claims on the codec

Decoded == dec.op # "none"

IsHex(c) == (c >= 48 /\ c <= 57) \/ (c >= 97 /\ c <= 102) \/ (c >= 65 /\ c <= 70)

\* 32 hex digits.
IsHashLike(t) == Len(t) = 32 /\ \A i \in 1..32 : IsHex(t[i])

\* 36 bytes: '-' at offsets 8, 13, 18, 23, hex digits elsewhere.
IsCanonical(t) ==
    /\ Len(t) = 36
    /\ \A i \in 1..36 : IF i \in {9, 14, 19, 24} THEN t[i] = dash ELSE IsHex(t[i])

\* The grammar of C10: hash-like, canonical, braced canonical, 'urn:uuid:' and
\* a hash-like or canonical body.
InGrammar(t) ==
    \/ IsHashLike(t)
    \/ IsCanonical(t)
    \/ Len(t) = 38 /\ t[1] = lbrace /\ t[38] = rbrace /\ IsCanonical(SubSeq(t, 2, 37))
    \/ /\ Len(t) \in {41, 45}
       /\ SubSeq(t, 1, 9) = urnPrefix
       /\ IsHashLike(SubSeq(t, 10, Len(t))) \/ IsCanonical(SubSeq(t, 10, Len(t)))

\* C9: the text encoding of an identifier, and its braced, urn, hash-like and
\* urn hash-like renderings, decode without error to that identifier.
C9_TextRoundTrip ==
    (/\ Decoded /\ edits = 0
     /\ form \in {"canonical", "braced", "urn", "hashlike", "urnhashlike"}) =>
        dec.err = "none" /\ dec.u = id

\* The urn hash-like rendering of the second mixed-digit identifier was decoded
\* into a receiver that held other bytes.
C9_Witness ==
    /\ Decoded /\ form = "urnhashlike" /\ edits = 0
    /\ dec.op = "UnmarshalText" /\ dec.before # Nil
    /\ id[1] = 37 /\ dec.u = id

C11_GrammarTextAccepted ==
    (Decoded /\ dec.op = "UnmarshalText" /\ form # "none" /\ edits = 0) =>
        dec.err = "none" /\ dec.u = id

\* C12: FromBytes of a 16-byte slice b succeeds with an identifier whose bytes
\* are b, MarshalBinary of it returns b, and decoding that again returns the
\* same identifier.
C12_BinaryRoundTrip ==
    (Len(data) = Size /\ bin.op = "FromBytes") =>
        /\ bin.err = "none" /\ Bytes(bin.u) = data
        /\ bin.stage >= 2 => bin.enc = data
        /\ bin.stage = 3 => bin.again = [u |-> bin.u, err |-> "none"]

\* A slice of 16 bytes 6b 00 ff ... was decoded, encoded and decoded again.
C12_Witness ==
    /\ bin.stage = 3 /\ bin.op = "FromBytes"
    /\ Len(data) = Size /\ data[1] = 107 /\ data[Size] = 107 /\ data[3] = 255
    /\ bin.again.u = data

\* C13: of a slice that is not 16 bytes long UnmarshalBinary and FromBytes
\* return an error, FromBytes returns Nil with it, FromBytesOrNil returns Nil.
C13_OtherLengthsRefused ==
    (bin.stage >= 1 /\ Len(data) # Size) =>
        /\ bin.op = "UnmarshalBinary" => bin.err # "none"
        /\ bin.op = "FromBytes" => bin.err # "none" /\ bin.u = Nil
        /\ bin.op = "FromBytesOrNil" => bin.u = Nil

\* A slice of 17 bytes, none of them zero, was refused by FromBytes.
C13_Witness ==
    /\ bin.op = "FromBytes" /\ Len(data) = Size + 1
    /\ \A i \in 1..Size : data[i] # 0
    /\ bin.err # "none"

\* C18 as stated: when UnmarshalText returns an error the receiver holds the
\* bytes it held before the call, and FromString returns Nil on every failure.
C18_FailedDecodeKeepsReceiver ==
    (Decoded /\ dec.err # "none") =>
        /\ dec.op = "UnmarshalText" => dec.u = dec.before
        /\ dec.op = "FromString" => dec.u = Nil

====
